---- MODULE Spec2Model ----
(***************************************************************************)
(* create_plays_db.py: load team_data_combined/plays.csv into the table    *)
(* 'plays' of plays.db, chunk by chunk, converting object columns that     *)
(* look numeric.                                                           *)
(*                                                                         *)
(* Text is a sequence of one-character strings, so that strip(), the       *)
(* regular expression of looks_numeric and the numeric parser are computed *)
(* character by character.  A cell of a DataFrame or of the table is a     *)
(* record [t, s, n]: a str (s its text), a number (n its value in tenths)  *)
(* or NaN / NULL.  A column of a DataFrame is [dtype, vals].               *)
(***************************************************************************)
EXTENDS Integers, Sequences, FiniteSets, TLC

VARIABLES
    csv,          \* the file at CSV_PATH: [exists, ncols, nrows, pats]
    db,           \* the file at DB_PATH: [exists, hasTable, types, rows]
    conn,         \* the sqlite3 connection of main(): "none", "open", "closed"
    opened,       \* number of sqlite3.connect calls of the current run
    pc,           \* the line main() is at
    first,        \* main(): first
    total_rows,   \* main(): total_rows
    pos,          \* rows the read_csv iterator has consumed
    nread,        \* chunks the read_csv iterator has yielded
    chunk,        \* main(): chunk, the current DataFrame (a sequence of columns)
    verdict,      \* the value looks_numeric returned, "none" before it ran
    count,        \* main(): count, -1 before the SELECT COUNT query ran
    schema_rows,  \* main(): schema_rows, the ctype of each PRAGMA table_info row
    err,          \* the exception main() is raising, "none" if none
    run,          \* how many times the script was started
    prev          \* [count, types, rows] of the table the previous run left

vars == <<csv, db, conn, opened, pc, first, total_rows, pos, nread, chunk,
          verdict, count, schema_rows, err, run, prev>>

(***************************************************************************)
(* Bounds of the model.                                                    *)
(***************************************************************************)
MaxCols    == 2   \* header columns of the CSV: 1..MaxCols
MaxFull    == 1   \* full chunks of the CSV: 0..MaxFull
MaxExtra   == 2   \* rows of the CSV beyond its full chunks: 0..MaxExtra
MaxRuns    == 2   \* times the script is started
MaxShort   == 2   \* length of the exhaustively enumerated short columns
MaxBad     == 2   \* non-matching values of a long column: 0..MaxBad, 50, 51
MaxMissing == 1   \* missing values in front of a long column

(***************************************************************************)
(* Constants of the program.                                               *)
(***************************************************************************)
sample_size   == 1000   \* looks_numeric(sample_size=1000)
threshold_num == 95     \* looks_numeric(threshold=0.95), as 95 / 100
threshold_den == 100
chunksize     == 20     \* read_csv(chunksize=100_000), scaled down to 20 rows

(***************************************************************************)
(* Cells.                                                                  *)
(***************************************************************************)
Str(s) == [t |-> "str", s |-> s, n |-> 0]
Num(n) == [t |-> "num", s |-> <<>>, n |-> n]
NaN    == [t |-> "nan", s |-> <<>>, n |-> 0]

Digits == {"0", "1", "2", "3", "4", "5", "6", "7", "8", "9"}
DigitVal == [c \in Digits |->
              CASE c = "0" -> 0 [] c = "1" -> 1 [] c = "2" -> 2 [] c = "3" -> 3
                [] c = "4" -> 4 [] c = "5" -> 5 [] c = "6" -> 6 [] c = "7" -> 7
                [] c = "8" -> 8 [] c = "9" -> 9]
Whitespace == {" "}

MinOf(S) == CHOOSE x \in S : \A y \in S : x <= y
MaxOf(S) == CHOOSE x \in S : \A y \in S : x >= y

(***************************************************************************)
(* str.strip(): the text without its leading and trailing whitespace.      *)
(***************************************************************************)
strip(s) ==
    LET ink == {i \in 1..Len(s) : s[i] \notin Whitespace}
    IN  IF ink = {} THEN <<>> ELSE SubSeq(s, MinOf(ink), MaxOf(ink))

(***************************************************************************)
(* The index after the run of digits of s that starts at index i.          *)
(***************************************************************************)
RECURSIVE DigitRunEnd(_, _)
DigitRunEnd(s, i) ==
    IF i <= Len(s) /\ s[i] \in Digits THEN DigitRunEnd(s, i + 1) ELSE i

(***************************************************************************)
(* numeric_pat.match(v) for numeric_pat = ^[+-]?\d+(?:\.\d+)?$ : scan an   *)
(* optional sign, a run of one or more digits, and then either the end or  *)
(* a point followed by one or more digits and the end.                     *)
(***************************************************************************)
numeric_pat_match(s) ==
    LET i0 == IF Len(s) > 0 /\ s[1] \in {"+", "-"} THEN 2 ELSE 1
        i1 == DigitRunEnd(s, i0)
        i2 == DigitRunEnd(s, i1 + 1)
    IN  /\ i1 > i0
        /\ \/ i1 = Len(s) + 1
           \/ /\ i1 <= Len(s)
              /\ s[i1] = "."
              /\ i2 > i1 + 1
              /\ i2 = Len(s) + 1

(***************************************************************************)
(* looks_numeric(series): False for an empty series and for one with no    *)
(* non-missing value; otherwise the share of the first sample_size         *)
(* non-missing values whose stripped text matches numeric_pat is compared  *)
(* with the threshold.  The series is a column of dtype object, whose      *)
(* cells are str or NaN, so astype(str) is the text of the cell.  The code *)
(* compares the float matches / len(sample) with the float 0.95; division  *)
(* is correctly rounded and len(sample) <= 1000, so the comparison agrees  *)
(* with the exact one, matches * 100 >= 95 * len(sample).                  *)
(***************************************************************************)
dropna(vals) == SelectSeq(vals, LAMBDA c : c.t # "nan")

astype_str(vals) == [i \in 1..Len(vals) |-> vals[i].s]

head(vals, k) == SubSeq(vals, 1, IF Len(vals) < k THEN Len(vals) ELSE k)

(* Faulty variant: the share must exceed the threshold. *)
looks_numeric_above_threshold(series) ==
    LET sample  == head(astype_str(dropna(series.vals)), sample_size)
        matches == Cardinality({i \in 1..Len(sample) :
                                   numeric_pat_match(strip(sample[i]))})
    IN  /\ Len(sample) > 0
        /\ matches * threshold_den > threshold_num * Len(sample)

looks_numeric(series) ==
    IF Len(series.vals) = 0
    THEN FALSE
    ELSE LET sample0 == astype_str(dropna(series.vals))
         IN  IF Len(sample0) = 0
             THEN FALSE
             ELSE LET sample  == head(sample0, sample_size)
                      matches == Cardinality({i \in 1..Len(sample) :
                                     numeric_pat_match(strip(sample[i]))})
                  IN  matches * threshold_den >= threshold_num * Len(sample)

(***************************************************************************)
(* The number a text stands for, as pandas parses it (to_numeric and the   *)
(* type inference of read_csv): whitespace, an optional sign, digits with  *)
(* an optional point and fraction, an optional exponent, whitespace.  The  *)
(* value is kept in tenths, so one digit of the fraction is kept; int      *)
(* tells whether the text is an integer literal (no point, no exponent).   *)
(***************************************************************************)
RECURSIVE DigitsValue(_, _, _)
DigitsValue(s, i, j) ==
    IF j <= i THEN 0 ELSE DigitsValue(s, i, j - 1) * 10 + DigitVal[s[j - 1]]

RECURSIVE Pow10(_)
Pow10(k) == IF k <= 0 THEN 1 ELSE 10 * Pow10(k - 1)

ParseNumber(s) ==
    LET t        == strip(s)
        signed   == Len(t) > 0 /\ t[1] \in {"+", "-"}
        i0       == IF signed THEN 2 ELSE 1
        i1       == DigitRunEnd(t, i0)
        hasPoint == i1 <= Len(t) /\ t[i1] = "."
        f0       == IF hasPoint THEN i1 + 1 ELSE i1
        i2       == DigitRunEnd(t, f0)
        hasExp   == i2 <= Len(t) /\ t[i2] \in {"e", "E"}
        esigned  == hasExp /\ i2 + 1 <= Len(t) /\ t[i2 + 1] \in {"+", "-"}
        e1       == IF esigned THEN i2 + 2 ELSE i2 + 1
        i3       == DigitRunEnd(t, e1)
        end      == IF hasExp THEN i3 ELSE i2
        ok       == /\ i1 > i0 \/ i2 > f0
                    /\ hasExp => i3 > e1
                    /\ end = Len(t) + 1
        tenths   == DigitsValue(t, i0, i1) * 10
                    + (IF i2 > f0 THEN DigitVal[t[f0]] ELSE 0)
        expo     == IF hasExp THEN DigitsValue(t, e1, i3) ELSE 0
        scaled   == IF esigned /\ t[i2 + 1] = "-"
                    THEN tenths \div Pow10(expo)
                    ELSE tenths * Pow10(expo)
    IN  [ok  |-> ok,
         int |-> ok /\ ~hasPoint /\ ~hasExp,
         n   |-> IF ~ok THEN 0
                 ELSE IF signed /\ t[1] = "-" THEN 0 - scaled ELSE scaled]

(***************************************************************************)
(* pd.to_numeric(s, errors="coerce"): every str that parses becomes its    *)
(* number, every other str becomes NaN, NaN stays NaN; the result is int64 *)
(* when every value is an integer literal, float64 otherwise.              *)
(***************************************************************************)
to_numeric_value(c) ==
    IF c.t = "str"
    THEN IF ParseNumber(c.s).ok THEN Num(ParseNumber(c.s).n) ELSE NaN
    ELSE c

to_numeric(series) ==
    [dtype |-> IF \A i \in 1..Len(series.vals) :
                     /\ series.vals[i].t = "str"
                     /\ ParseNumber(series.vals[i].s).int
               THEN "int64" ELSE "float64",
     vals  |-> [i \in 1..Len(series.vals) |-> to_numeric_value(series.vals[i])]]

(***************************************************************************)
(* coerce_numeric_columns(df): every column of dtype object that           *)
(* looks_numeric accepts is replaced by its to_numeric; the other columns  *)
(* are left as they are.                                                   *)
(***************************************************************************)
(* Faulty variant: the values that do not parse are dropped. *)
coerce_drop_unparsed(df) ==
    [j \in 1..Len(df) |->
        IF df[j].dtype = "object" /\ looks_numeric(df[j])
        THEN [dtype |-> "float64",
              vals  |-> SelectSeq(to_numeric(df[j]).vals, LAMBDA c : c.t = "num")]
        ELSE df[j]]

coerce_numeric_columns(df) ==
    [j \in 1..Len(df) |->
        IF df[j].dtype = "object" /\ looks_numeric(df[j])
        THEN to_numeric(df[j])
        ELSE df[j]]

len(df) == IF Len(df) = 0 THEN 0 ELSE Len(df[1].vals)

(***************************************************************************)
(* The files before the script ever ran, and the locals of main() before   *)
(* it starts.                                                              *)
(***************************************************************************)
NoFile == [exists |-> FALSE, hasTable |-> FALSE, types |-> <<>>, rows |-> <<>>]

NoPrev == [count |-> -1, types |-> <<>>, rows |-> <<>>]

NoCsv == [exists |-> FALSE, ncols |-> 1, nrows |-> 0, pats |-> <<>>]

(***************************************************************************)
(* The series looks_numeric and coerce_numeric_columns are applied to in   *)
(* isolation: columns of dtype object.  The short ones are all the columns *)
(* of up to MaxShort cells over Texts and NaN.  A long one has `good`      *)
(* cells of a matching text and `bad` cells of a non-matching text, in     *)
(* either order, behind `missing` NaN cells, with sizes around the         *)
(* threshold (19 of 20, 950 of 1000) and around sample_size.  TextPairs    *)
(* gives the matching and the non-matching text of a long column.          *)
(***************************************************************************)
Texts ==
    { <<"7">>, <<"-", "3", ".", "5">>, <<" ", "+", "1", "0", " ">>,
      <<"0", "0", "7", ".", "0">>, <<"1", "e", "2">>, <<"7", ".">>,
      <<".", "5">>, <<"+">>, <<"-", " ", "7">>, <<" ">>, <<>>,
      <<"a", "b", "c">>, <<"7", " ", "7">>, <<"+", "-", "7">> }

ShortCells == {NaN} \cup {Str(s) : s \in Texts}

RECURSIVE SeqsUpTo(_, _)
SeqsUpTo(S, k) ==
    IF k = 0 THEN {<<>>}
    ELSE LET shorter == SeqsUpTo(S, k - 1)
         IN  shorter \cup {Append(q, x) : q \in {r \in shorter : Len(r) = k - 1},
                                           x \in S}

Repeat(c, k) == [i \in 1..k |-> c]

GoodCounts == {18, 19, 20, sample_size - 51, sample_size - 50,
               sample_size - 1, sample_size}
BadCounts  == (0..MaxBad) \cup {50, 51}
TextPairs  == { << <<"7">>, <<"a", "b", "c">> >>,
                << <<" ", "-", "3", ".", "5", " ">>, <<"1", "e", "2">> >> }

LongVals ==
    { Repeat(NaN, m) \o (IF goodFirst
                         THEN Repeat(Str(t[1]), a) \o Repeat(Str(t[2]), b)
                         ELSE Repeat(Str(t[2]), b) \o Repeat(Str(t[1]), a)) :
        m \in 0..MaxMissing, goodFirst \in BOOLEAN, t \in TextPairs,
        a \in GoodCounts, b \in BadCounts }

ObjectColumns ==
    { [dtype |-> "object", vals |-> v] :
        v \in SeqsUpTo(ShortCells, MaxShort) \cup LongVals }

InitColumn ==
    /\ chunk \in { <<series>> : series \in ObjectColumns }
    /\ pc = "series"
    /\ verdict = "none"
    /\ csv = NoCsv
    /\ db = NoFile
    /\ conn = "none"
    /\ opened = 0
    /\ first = TRUE
    /\ total_rows = 0
    /\ pos = 0
    /\ nread = 0
    /\ count = -1
    /\ schema_rows = <<>>
    /\ err = "none"
    /\ run = 0
    /\ prev = NoPrev

CallLooksNumeric ==
    /\ pc = "series"
    /\ verdict' = IF looks_numeric(chunk[1]) THEN "True" ELSE "False"
    /\ pc' = "judged"
    /\ UNCHANGED <<csv, db, conn, opened, first, total_rows, pos, nread, chunk,
                   count, schema_rows, err, run, prev>>

CallCoerce ==
    /\ pc = "judged"
    /\ chunk' = coerce_numeric_columns(chunk)
    /\ pc' = "coerced"
    /\ UNCHANGED <<csv, db, conn, opened, first, total_rows, pos, nread,
                   verdict, count, schema_rows, err, run, prev>>

NextColumn == CallLooksNumeric \/ CallCoerce

SpecColumn == InitColumn /\ [][NextColumn]_vars

(***************************************************************************)
(* The CSV files the script is run on.  A file is its header's column      *)
(* count, its row count and one pattern per chunk of rows; ncols = 0 is a  *)
(* file with no header at all.  The text of a field follows the pattern of *)
(* its chunk, the patterns rotating from one column to the next:           *)
(*   int      an integer literal in every row,                             *)
(*   text     free text in every row,                                      *)
(*   mostly   free text in the first row of the chunk, integers after it   *)
(*            (19 of the 20 rows of a full chunk match numeric_pat),       *)
(*   missing  an empty field in every row.                                 *)
(***************************************************************************)
Patterns == {"int", "text", "mostly", "missing"}

DigitChar(k) == <<"0", "1", "2", "3", "4", "5", "6", "7", "8", "9">>[(k % 10) + 1]

PatternText(p, k) ==
    CASE p = "int"     -> <<DigitChar(k)>>
      [] p = "text"    -> <<"a", "b", "c">>
      [] p = "mostly"  -> IF k = 1 THEN <<"a", "b", "c">> ELSE <<DigitChar(k)>>
      [] p = "missing" -> <<>>

NumChunks(nrows) == (nrows + chunksize - 1) \div chunksize

Field(f, i, j) ==
    LET slot == ((i - 1) \div chunksize) + 1
        k    == ((i - 1) % chunksize) + 1
    IN  PatternText(f.pats[((slot + j - 2) % Len(f.pats)) + 1], k)

RECURSIVE Tuples(_, _)
Tuples(S, k) ==
    IF k = 0 THEN {<<>>}
    ELSE {Append(q, x) : q \in Tuples(S, k - 1), x \in S}

EmptyCsv == [exists |-> TRUE, ncols |-> 0, nrows |-> 0, pats |-> <<>>]

CsvFiles ==
    UNION { { [exists |-> TRUE, ncols |-> c, nrows |-> full * chunksize + extra,
               pats |-> p] :
                p \in Tuples(Patterns, NumChunks(full * chunksize + extra)) } :
            c \in 1..MaxCols, full \in 0..MaxFull, extra \in 0..MaxExtra }

OldDb == [exists |-> TRUE, hasTable |-> TRUE, types |-> <<"TEXT">>,
          rows |-> << <<Str(<<"o", "l", "d">>)>> >>]

(***************************************************************************)
(* One chunk of pd.read_csv(CSV_PATH, chunksize=..., low_memory=False):    *)
(* rows lo..hi of the file as a DataFrame.  An empty field is NaN.  A      *)
(* column whose fields all parse as numbers is int64 (integer literals     *)
(* only, none missing) or float64; any other column is object and keeps    *)
(* its texts.  A chunk of no rows has object columns.                      *)
(***************************************************************************)
read_column(f, lo, hi, j) ==
    LET raw     == [i \in 1..(hi - lo + 1) |-> Field(f, lo + i - 1, j)]
        present == {i \in 1..Len(raw) : raw[i] # <<>>}
    IN  IF Len(raw) = 0
        THEN [dtype |-> "object", vals |-> <<>>]
        ELSE IF \A i \in present : ParseNumber(raw[i]).ok
        THEN [dtype |-> IF present = 1..Len(raw)
                           /\ \A i \in present : ParseNumber(raw[i]).int
                        THEN "int64" ELSE "float64",
              vals  |-> [i \in 1..Len(raw) |->
                            IF raw[i] = <<>> THEN NaN
                            ELSE Num(ParseNumber(raw[i]).n)]]
        ELSE [dtype |-> "object",
              vals  |-> [i \in 1..Len(raw) |->
                            IF raw[i] = <<>> THEN NaN ELSE Str(raw[i])]]

read_chunk(f, lo, hi) == [j \in 1..f.ncols |-> read_column(f, lo, hi, j)]

(***************************************************************************)
(* chunk.to_sql(TABLE_NAME, conn, if_exists=..., index=False) on the       *)
(* database d.  "replace" drops the table; a table that does not exist is  *)
(* created with one column per column of the chunk, typed by its dtype;    *)
(* the rows of the chunk are inserted after the rows the table holds.  A   *)
(* row holds the values bound to the INSERT, NaN bound as NULL.            *)
(***************************************************************************)
SqlType(dtype) ==
    CASE dtype = "int64"   -> "INTEGER"
      [] dtype = "float64" -> "REAL"
      [] OTHER             -> "TEXT"

SqlTypes(df) == [j \in 1..Len(df) |-> SqlType(df[j].dtype)]

Rows(df) == [i \in 1..len(df) |-> [j \in 1..Len(df) |-> df[j].vals[i]]]

to_sql(d, df, if_exists) ==
    IF if_exists = "replace" \/ ~d.hasTable
    THEN [exists |-> TRUE, hasTable |-> TRUE, types |-> SqlTypes(df),
          rows |-> Rows(df)]
    ELSE [d EXCEPT !.rows = d.rows \o Rows(df)]

(* Faulty variant: every chunk is written in replace mode. *)
write_chunk_always_replace(d, df, if_exists) == to_sql(d, df, "replace")

(* Faulty variant: an appended chunk retypes the columns of the table. *)
write_chunk_retyped(d, df, if_exists) ==
    [to_sql(d, df, if_exists) EXCEPT !.types = SqlTypes(df)]

write_chunk(d, df, if_exists) == to_sql(d, df, if_exists)

(***************************************************************************)
(* main().  The script is started on a CSV file that exists or not, with   *)
(* plays.db absent or left by an earlier build.                            *)
(***************************************************************************)
Init ==
    /\ csv \in {NoCsv, EmptyCsv} \cup CsvFiles
    /\ db \in {NoFile, OldDb}
    /\ conn = "none"
    /\ opened = 0
    /\ pc = "start"
    /\ first = TRUE
    /\ total_rows = 0
    /\ pos = 0
    /\ nread = 0
    /\ chunk = <<>>
    /\ verdict = "none"
    /\ count = -1
    /\ schema_rows = <<>>
    /\ err = "none"
    /\ run = 1
    /\ prev = NoPrev

(* Lines 69-70: the CSV must exist. *)
(* Faulty variant: the existence of the CSV is not checked. *)
CheckCsv_unchecked ==
    /\ pc = "start"
    /\ pc' = "remove"
    /\ UNCHANGED <<csv, db, conn, opened, first, total_rows, pos, nread, chunk,
                   verdict, count, schema_rows, err, run, prev>>

CheckCsv ==
    /\ pc = "start"
    /\ IF csv.exists
       THEN pc' = "remove" /\ err' = err
       ELSE pc' = "raised" /\ err' = "FileNotFoundError"
    /\ UNCHANGED <<csv, db, conn, opened, first, total_rows, pos, nread, chunk,
                   verdict, count, schema_rows, run, prev>>

(* Lines 73-74: an existing plays.db is removed. *)
(* Faulty variant: the existing plays.db is kept. *)
RemoveDb_kept ==
    /\ pc = "remove"
    /\ pc' = "connect"
    /\ UNCHANGED <<csv, db, conn, opened, first, total_rows, pos, nread, chunk,
                   verdict, count, schema_rows, err, run, prev>>

RemoveDb ==
    /\ pc = "remove"
    /\ db' = IF db.exists THEN NoFile ELSE db
    /\ pc' = "connect"
    /\ UNCHANGED <<csv, conn, opened, first, total_rows, pos, nread, chunk,
                   verdict, count, schema_rows, err, run, prev>>

(* Lines 76-79: sqlite3.connect creates the file and opens the connection; *)
(* first and total_rows are set.                                           *)
Connect ==
    /\ pc = "connect"
    /\ conn' = "open"
    /\ opened' = opened + 1
    /\ db' = [db EXCEPT !.exists = TRUE]
    /\ first' = TRUE
    /\ total_rows' = 0
    /\ pc' = "read"
    /\ UNCHANGED <<csv, pos, nread, chunk, verdict, count, schema_rows, err,
                   run, prev>>

(* Line 76 raising (the file cannot be opened): outside the try block. *)
ConnectFails ==
    /\ pc = "connect"
    /\ err' = "sqlite3.OperationalError"
    /\ pc' = "raised"
    /\ UNCHANGED <<csv, db, conn, opened, first, total_rows, pos, nread, chunk,
                   verdict, count, schema_rows, run, prev>>

(* Line 81: the iterator yields the next chunk, or is exhausted and the   *)
(* loop ends.  A file with a header and no rows yields one chunk of no    *)
(* rows; a file with no header raises (ReadFails).                        *)
(* Faulty variant: a file with no rows yields no chunk. *)
NextChunk_no_empty_chunk ==
    /\ pc = "read"
    /\ csv.ncols > 0
    /\ IF pos < csv.nrows
       THEN /\ LET hi == IF pos + chunksize < csv.nrows THEN pos + chunksize
                         ELSE csv.nrows
               IN  /\ chunk' = read_chunk(csv, pos + 1, hi)
                   /\ pos' = hi
            /\ nread' = nread + 1
            /\ pc' = "coerce"
       ELSE /\ pc' = "verify"
            /\ UNCHANGED <<chunk, pos, nread>>
    /\ UNCHANGED <<csv, db, conn, opened, first, total_rows, verdict, count,
                   schema_rows, err, run, prev>>

NextChunk ==
    /\ pc = "read"
    /\ csv.ncols > 0
    /\ IF pos < csv.nrows \/ nread = 0
       THEN /\ LET hi == IF pos + chunksize < csv.nrows THEN pos + chunksize
                         ELSE csv.nrows
               IN  /\ chunk' = read_chunk(csv, pos + 1, hi)
                   /\ pos' = hi
            /\ nread' = nread + 1
            /\ pc' = "coerce"
       ELSE /\ pc' = "verify"
            /\ UNCHANGED <<chunk, pos, nread>>
    /\ UNCHANGED <<csv, db, conn, opened, first, total_rows, verdict, count,
                   schema_rows, err, run, prev>>

(* Line 81 raising: no header to parse, or the file cannot be read. *)
ReadFails ==
    /\ pc = "read"
    /\ err' = IF csv.ncols = 0 THEN "EmptyDataError" ELSE "OSError"
    /\ pc' = "finally"
    /\ UNCHANGED <<csv, db, conn, opened, first, total_rows, pos, nread, chunk,
                   verdict, count, schema_rows, run, prev>>

(* Line 83. *)
Coerce ==
    /\ pc = "coerce"
    /\ chunk' = coerce_numeric_columns(chunk)
    /\ pc' = "write"
    /\ UNCHANGED <<csv, db, conn, opened, first, total_rows, pos, nread,
                   verdict, count, schema_rows, err, run, prev>>

(* Line 83 raising (out of memory). *)
CoerceFails ==
    /\ pc = "coerce"
    /\ err' = "MemoryError"
    /\ pc' = "finally"
    /\ UNCHANGED <<csv, db, conn, opened, first, total_rows, pos, nread, chunk,
                   verdict, count, schema_rows, run, prev>>

(* Faulty variant: the total counts chunks, not rows. *)
WriteChunk_counts_chunks ==
    /\ pc = "write"
    /\ db' = write_chunk(db, chunk, IF first THEN "replace" ELSE "append")
    /\ first' = FALSE
    /\ total_rows' = total_rows + 1
    /\ pc' = "read"
    /\ UNCHANGED <<csv, conn, opened, pos, nread, chunk, verdict, count,
                   schema_rows, err, run, prev>>

(* Lines 84-86: the chunk is written, first is cleared, the total grows. *)
WriteChunk ==
    /\ pc = "write"
    /\ db' = write_chunk(db, chunk, IF first THEN "replace" ELSE "append")
    /\ first' = FALSE
    /\ total_rows' = total_rows + len(chunk)
    /\ pc' = "read"
    /\ UNCHANGED <<csv, conn, opened, pos, nread, chunk, verdict, count,
                   schema_rows, err, run, prev>>

(* Line 84 raising (disk full): to_sql rolls its own INSERT back; the      *)
(* table of the first chunk may or may not have been created.              *)
WriteFails ==
    /\ pc = "write"
    /\ \E created \in BOOLEAN :
         db' = IF created /\ first
               THEN [exists |-> TRUE, hasTable |-> TRUE,
                     types |-> SqlTypes(chunk), rows |-> <<>>]
               ELSE db
    /\ err' = "DatabaseError"
    /\ pc' = "finally"
    /\ UNCHANGED <<csv, conn, opened, first, total_rows, pos, nread, chunk,
                   verdict, count, schema_rows, run, prev>>

(* Lines 89-100: the SELECT COUNT query, PRAGMA table_info, and the report. *)
Verify ==
    /\ pc = "verify"
    /\ IF db.hasTable
       THEN /\ count' = Len(db.rows)
            /\ schema_rows' = db.types
            /\ err' = err
       ELSE /\ err' = "no such table"
            /\ UNCHANGED <<count, schema_rows>>
    /\ pc' = "finally"
    /\ UNCHANGED <<csv, db, conn, opened, first, total_rows, pos, nread, chunk,
                   verdict, run, prev>>

(* Lines 89-94 raising (the database cannot be read). *)
VerifyFails ==
    /\ pc = "verify"
    /\ err' = "sqlite3.DatabaseError"
    /\ pc' = "finally"
    /\ UNCHANGED <<csv, db, conn, opened, first, total_rows, pos, nread, chunk,
                   verdict, count, schema_rows, run, prev>>

(* Lines 101-102: finally: conn.close(); then main() returns or raises. *)
(* Faulty variant: the connection is closed only when nothing was raised. *)
Close_on_success_only ==
    /\ pc = "finally"
    /\ conn' = IF err = "none" THEN "closed" ELSE conn
    /\ pc' = IF err = "none" THEN "done" ELSE "raised"
    /\ UNCHANGED <<csv, db, opened, first, total_rows, pos, nread, chunk,
                   verdict, count, schema_rows, err, run, prev>>

Close ==
    /\ pc = "finally"
    /\ conn' = "closed"
    /\ pc' = IF err = "none" THEN "done" ELSE "raised"
    /\ UNCHANGED <<csv, db, opened, first, total_rows, pos, nread, chunk,
                   verdict, count, schema_rows, err, run, prev>>

(* The script is started again on the same files; prev keeps what the     *)
(* finished run reported and left.                                        *)
Rerun ==
    /\ pc \in {"done", "raised"}
    /\ run < MaxRuns
    /\ run' = run + 1
    /\ prev' = IF pc = "done"
               THEN [count |-> count, types |-> schema_rows, rows |-> db.rows]
               ELSE NoPrev
    /\ conn' = "none"
    /\ opened' = 0
    /\ pc' = "start"
    /\ first' = TRUE
    /\ total_rows' = 0
    /\ pos' = 0
    /\ nread' = 0
    /\ chunk' = <<>>
    /\ count' = -1
    /\ schema_rows' = <<>>
    /\ err' = "none"
    /\ UNCHANGED <<csv, db, verdict>>

Next ==
    \/ CheckCsv
    \/ RemoveDb
    \/ Connect
    \/ ConnectFails
    \/ NextChunk
    \/ ReadFails
    \/ Coerce
    \/ CoerceFails
    \/ WriteChunk
    \/ WriteFails
    \/ Verify
    \/ VerifyFails
    \/ Close
    \/ Rerun

Spec == Init /\ [][Next]_vars

(***************************************************************************)
(* Properties of main() (specification Spec).                              *)
(***************************************************************************)
NumericTypes == {"INTEGER", "REAL"}

(* The rows of the file the current chunk was read from. *)
ChunkLo == pos - len(chunk) + 1
ChunkHi == pos

(* C1: when the CSV file does not exist, main() raises FileNotFoundError   *)
(* at once: plays.db is neither deleted, overwritten nor created, and no   *)
(* connection is opened.                                                   *)
C1_MissingCsvLeavesDestination ==
    [][(pc = "start" /\ ~csv.exists)
        => /\ pc' = "raised"
           /\ err' = "FileNotFoundError"
           /\ db' = db
           /\ conn' = "none"
           /\ opened' = 0]_vars

C1_Witness ==
    /\ pc = "raised"
    /\ err = "FileNotFoundError"
    /\ db = OldDb
    /\ conn = "none"
    /\ opened = 0

(* C2: once the end-of-run SELECT COUNT query has run, the count it        *)
(* returned equals total_rows, the sum of the chunk lengths of the loop.   *)
C2_CountEqualsTotalRows ==
    count # -1 => count = total_rows

C2_Witness ==
    /\ pc = "done"
    /\ nread = 2
    /\ total_rows = chunksize + 1
    /\ count = chunksize + 1

(* C3: the connection is opened at most once per run; when main() has      *)
(* returned or raised after opening it, it is closed, whichever step       *)
(* failed; and after a failed write the table still holds the rows of the  *)
(* chunks written before.                                                  *)
C3_ConnectionClosedOnEveryExit ==
    /\ opened <= 1
    /\ opened = 0 => conn = "none"
    /\ (pc \in {"done", "raised"} /\ opened = 1) => conn = "closed"
    /\ err = "DatabaseError" =>
          /\ Len(db.rows) = total_rows
          /\ total_rows = pos - len(chunk)

C3_Witness ==
    /\ pc = "raised"
    /\ err = "DatabaseError"
    /\ conn = "closed"
    /\ Len(db.rows) = chunksize
    /\ len(chunk) > 0

(* C4: a file with a header and no data rows never makes the parser or the *)
(* verification queries fail, and when main() returns the table exists,    *)
(* holds no row and has one column per header column.                      *)
C4_HeaderOnly ==
    (csv.exists /\ csv.ncols > 0 /\ csv.nrows = 0) =>
        /\ err \notin {"FileNotFoundError", "EmptyDataError", "no such table"}
        /\ pc = "verify" => db.hasTable
        /\ pc = "done" =>
              /\ db.hasTable
              /\ db.rows = <<>>
              /\ Len(db.types) = csv.ncols
              /\ count = 0
              /\ Len(schema_rows) = csv.ncols

C4_Witness ==
    /\ pc = "done"
    /\ run = 1
    /\ csv.nrows = 0
    /\ csv.ncols = 2
    /\ db.types = <<"TEXT", "TEXT">>
    /\ db.rows = <<>>
    /\ count = 0

(* The sample of column j of the chunk in hand, from the texts of the file. *)
SampleTexts(j) ==
    head(SelectSeq([i \in 1..len(chunk) |-> Field(csv, ChunkLo + i - 1, j)],
                   LAMBDA x : x # <<>>), 1000)

SampleMatches(j) ==
    Cardinality({i \in 1..Len(SampleTexts(j)) :
                    numeric_pat_match(strip(SampleTexts(j)[i]))})

(* C6: right after a chunk is written, every column of which at least 95%  *)
(* of the sample (the first up to 1000 non-missing fields of the chunk)    *)
(* matches the numeric pattern is numeric in the table, and every column   *)
(* below that share is TEXT in the table and was left by                   *)
(* coerce_numeric_columns as read_csv gave it.                             *)
C6_ThresholdDecidesTableType ==
    (pc = "read" /\ ~first /\ db.hasTable) =>
        \A j \in 1..csv.ncols :
            Len(SampleTexts(j)) > 0 =>
                IF SampleMatches(j) * 100 >= 95 * Len(SampleTexts(j))
                THEN db.types[j] \in NumericTypes
                ELSE /\ db.types[j] = "TEXT"
                     /\ chunk[j] = read_column(csv, ChunkLo, ChunkHi, j)

(* C7: a run that completes after a completed run on the same input        *)
(* reports the same row count and column types and leaves the same rows;   *)
(* the database an earlier run left is removed before the connection is    *)
(* opened.                                                                 *)
C7_RerunSameTable ==
    /\ pc = "connect" => ~db.exists
    /\ (pc = "done" /\ prev.count # -1) =>
          /\ count = prev.count
          /\ schema_rows = prev.types
          /\ db.types = prev.types
          /\ db.rows = prev.rows

C7_Witness ==
    /\ pc = "done"
    /\ run = 2
    /\ prev.count = chunksize + 1
    /\ count = chunksize + 1
    /\ Len(db.rows) = chunksize + 1

(* C9: the declared type of every table column is the one the first        *)
(* written chunk gave it, and no later step of the run changes it.         *)
C9_AffinityFixedByFirstChunk ==
    [][/\ (first /\ ~first') => (db'.hasTable /\ db'.types = SqlTypes(chunk))
       /\ (~first /\ ~first') => (db'.hasTable /\ db'.types = db.types)]_vars

C9_Witness ==
    /\ pc = "read"
    /\ ~first
    /\ nread = 2
    /\ Len(db.rows) = pos
    /\ SqlTypes(chunk) # db.types

(* The cell a field of the file is stored as. *)
Derives(cell, raw) ==
    IF raw = <<>> THEN cell = NaN
    ELSE cell \in {Str(raw), to_numeric_value(Str(raw))}

(* C10: during a run the table holds exactly the rows of the chunks        *)
(* written so far, in the order of the file: as many rows as total_rows,   *)
(* all rows read when the next chunk is asked for, all rows but those of   *)
(* the chunk in hand while it is coerced and written, and the i-th row of  *)
(* the table is the i-th row of the file (its texts, their numbers, or     *)
(* NULL).                                                                  *)
C10_RowsInSourceOrder ==
    conn # "none" =>
        /\ Len(db.rows) = total_rows
        /\ pc = "read" => total_rows = pos
        /\ pc \in {"coerce", "write"} => total_rows = pos - len(chunk)
        /\ \A i \in 1..Len(db.rows) : \A j \in 1..csv.ncols :
               Derives(db.rows[i][j], Field(csv, i, j))

C10_Witness ==
    /\ pc = "read"
    /\ nread = 2
    /\ Len(db.rows) = chunksize + 2
    /\ db.rows[1] # db.rows[chunksize + 1]
    /\ db.rows[chunksize + 1] # db.rows[chunksize + 2]

(***************************************************************************)
(* Properties of looks_numeric and coerce_numeric_columns on one series    *)
(* (specification SpecColumn).  The rule is stated here on its own terms:  *)
(* the sample as a set of positions and the numeric pattern as a shape of   *)
(* the text between its leading and trailing blanks.                       *)
(***************************************************************************)
(* t is an optional sign, one or more digits and, optionally, a point and  *)
(* one or more digits.                                                     *)
IsSignedDecimal(t) ==
    \E sign \in 0..1 : \E p \in (sign + 1)..Len(t) :
        /\ sign = 1 => t[1] \in {"+", "-"}
        /\ \A i \in (sign + 1)..p : t[i] \in Digits
        /\ \/ p = Len(t)
           \/ /\ p + 2 <= Len(t)
              /\ t[p + 1] = "."
              /\ \A i \in (p + 2)..Len(t) : t[i] \in Digits

(* s is blanks, a signed decimal, blanks. *)
IsPaddedSignedDecimal(s) ==
    \E a \in 1..Len(s) : \E b \in a..Len(s) :
        /\ \A i \in 1..(a - 1) : s[i] = " "
        /\ \A i \in (b + 1)..Len(s) : s[i] = " "
        /\ IsSignedDecimal(SubSeq(s, a, b))

(* The positions of the first up to 1000 non-missing values. *)
SamplePositions(vals) ==
    LET present == {i \in 1..Len(vals) : vals[i] # NaN}
    IN  IF Cardinality(present) <= 1000 THEN present
        ELSE LET last == CHOOSE c \in {i \in present : i >= 1000} :
                            Cardinality({i \in present : i <= c}) = 1000
             IN  {i \in present : i <= last}

MatchingIn(vals, positions) ==
    {i \in positions : IsPaddedSignedDecimal(vals[i].s)}

(* C5: looks_numeric answers True exactly when the sample, the first up to *)
(* 1000 non-missing values, is not empty and at least 95% of its values    *)
(* are, once trimmed, signed integers or decimals; so an empty or          *)
(* all-missing column is not numeric.                                      *)
C5_LooksNumericRule ==
    pc = "judged" =>
        LET vals   == chunk[1].vals
            sample == SamplePositions(vals)
        IN  (verdict = "True") <=>
                /\ sample # {}
                /\ Cardinality(MatchingIn(vals, sample)) * 100
                      >= 95 * Cardinality(sample)

C5_Witness ==
    /\ pc = "judged"
    /\ verdict = "True"
    /\ chunk[1].vals[1] = NaN
    /\ Cardinality(SamplePositions(chunk[1].vals)) = 1000
    /\ Cardinality(MatchingIn(chunk[1].vals, 1..Len(chunk[1].vals))) = 950
    /\ Len(chunk[1].vals) = 1001

(* C8: coerce_numeric_columns keeps the number of columns and of rows, and *)
(* in a column looks_numeric accepted every text that does not parse as a  *)
(* number becomes NaN (NULL once stored), every text that parses becomes a *)
(* number, and the column gets a numeric dtype.                            *)
C8_UnparsedBecomeNull ==
    [][(pc = "judged" /\ pc' = "coerced") =>
          /\ Len(chunk') = Len(chunk)
          /\ len(chunk') = len(chunk)
          /\ verdict = "True" =>
                /\ chunk'[1].dtype \in {"int64", "float64"}
                /\ \A i \in 1..len(chunk) :
                      LET old == chunk[1].vals[i]
                          new == chunk'[1].vals[i]
                      IN  IF old.t = "str" /\ ParseNumber(old.s).ok
                          THEN new.t = "num"
                          ELSE new = NaN]_vars

C8_Witness ==
    /\ pc = "coerced"
    /\ verdict = "True"
    /\ chunk[1].dtype = "float64"
    /\ Len(chunk[1].vals) = 1051
    /\ chunk[1].vals[1].t = "num"
    /\ \A i \in 1001..1051 : chunk[1].vals[i] = NaN
====
